---- MODULE Spec2Model ----
(***************************************************************************)
(* A model of the fips-check scan engine: binarychecker.Check (directory   *)
(* walk, candidate filter, bounded-parallel check tasks, cancellation),    *)
(* checkGoBinaryFIPS / checkRuntimeFIPS (static metadata and the runtime   *)
(* probe) and the compliance evaluator applied to the reports.             *)
(*                                                                         *)
(* Text (stderr, setting values) is a sequence of tokens; substring tests  *)
(* are real substring tests on those sequences.                            *)
(***************************************************************************)
EXTENDS Integers, Sequences, FiniteSets, TLC

(***************************************************************************)
(* Bounds of the model.                                                    *)
(***************************************************************************)
\* Longest sequence of walk callbacks (the root included).
MaxVisits == 4
\* Capacity of the semaphore channel.  The code uses 10; the model scales it
\* down so that a scan of MaxVisits - 1 candidates saturates the gate.
MaxParallel == 2

VARIABLES
    tree,         \* the callbacks filepath.WalkDir makes, in order (fixed input)
    walkPos,      \* number of callbacks already made
    examined,     \* callbacks that went past the cancellation check
    binaryPaths,  \* candidates collected by the walk (walk positions)
    mainpc,       \* position of main / Check
    cancelled,    \* ctx.Done() is closed
    host,         \* what checkHost obtained, NoHost before
    hostCalls,    \* calls made to the host-capability provider
    tpc,          \* position of each dispatched goroutine
    local,        \* each goroutine's local report
    reports,      \* the shared reports slice
    writes,       \* per slot, the goroutines that wrote it, in order
    semaphore,    \* goroutines holding a permit of the semaphore channel
    mu,           \* holder of the mutex, 0 when unlocked
    wg,           \* sync.WaitGroup counter
    probe,        \* per goroutine, the life of its probe subprocess: none,
                  \* refused, startfailed, running, exited, timeout, killed
    ret,          \* what Check returned, NoRet before
    evals,        \* the last two evaluator calls of the consumer, newest first
    call          \* the last direct call of a function of the package, NoCall
                  \* before: its arguments and what it returned

vars == <<tree, walkPos, examined, binaryPaths, mainpc, cancelled, host, hostCalls,
          tpc, local, reports, writes, semaphore, mu, wg, probe, ret, evals, call>>

\* Everything but evals.
scanVars == <<tree, walkPos, examined, binaryPaths, mainpc, cancelled, host, hostCalls,
              tpc, local, reports, writes, semaphore, mu, wg, probe, ret, call>>

(***************************************************************************)
(* Text.                                                                   *)
(***************************************************************************)
\* strings.Contains on token sequences.
Contains(s, sub) ==
    \E i \in 0..(Len(s) - Len(sub)) : SubSeq(s, i + 1, i + Len(sub)) = sub

\* strings.HasPrefix on token sequences.
HasPrefix(s, prefix) ==
    Len(prefix) <= Len(s) /\ SubSeq(s, 1, Len(prefix)) = prefix

\* The panic a systemcrypto binary prints when FIPS mode is not available.
PanicText ==
    <<"panic: opensslcrypto: ", "FIPS", " mode requested", " (system ", "FIPS",
      " mode) ", "but not available in OpenSSL", " 3.0.16">>

fipsPanicIndicators ==
    << <<"panic: opensslcrypto: ", "FIPS", " mode requested">>,
       <<"FIPS", " mode requested">>,
       <<"but not available in OpenSSL">> >>

\* What a probed binary may have written to stderr.
StderrSamples == { <<>>, PanicText }

\* Longest stderr text, in tokens, of a direct call of the check.
MaxStderrLen == 3

\* The pieces of the markers, and a line that has nothing to do with FIPS.
StderrTokens ==
    {"panic: opensslcrypto: ", "FIPS", " mode requested", "but not available in OpenSSL",
     "exit status 1"}

StderrTexts ==
    StderrSamples \cup UNION { [1..n -> StderrTokens] : n \in 0..MaxStderrLen }

(***************************************************************************)
(* Build provenance (debug/buildinfo) and the report types.                *)
(***************************************************************************)
Setting(k, v) == [Key |-> k, Value |-> v]

BuildInfoSamples ==
    { [GoVersion |-> "go1.24.6 X:systemcrypto", MainPath |-> "example.com/app",
       Settings |-> << Setting("CGO_ENABLED", <<"1">>),
                       Setting("GOEXPERIMENT", <<"systemcrypto">>) >>],
      [GoVersion |-> "go1.21.0", MainPath |-> "",
       Settings |-> << Setting("CGO_ENABLED", <<"0">>) >>] }

\* GoBinaryReportDetails{}
ZeroDetails ==
    [GoVersion |-> "", Module |-> "", UseSystemcrypto |-> FALSE, CGOEnabled |-> FALSE,
     FailsOnFIPSCheck |-> FALSE, RuntimePanicLog |-> <<>>]

\* BinaryReport{}: the value of a slot of make([]BinaryReport, n).
\* RelativePath 0 stands for the empty string; a candidate's relative path
\* is its position in the walk.
ZeroReport ==
    [RelativePath |-> 0, Type |-> "", GoBinaryDetails |-> ZeroDetails, Error |-> "nil"]

\* Error values.  ErrCanceled is ctx.Err(); ErrWalk wraps it
\* ("error walking directory tree: %w").
ErrNil == "nil"
ErrCanceled == "context canceled"
ErrWalk == "error walking directory tree: context canceled"
ErrBuildInfo == "failed to read build info"
ErrRuntime == "runtime FIPS check failed"

\* errors.Is(err, context.Canceled)
IsCancellation(err) == err \in {ErrCanceled, ErrWalk}

\* A settings loop in which CGOEnabled, once set, stays set.
ApplySettingSticky(details, setting) ==
    CASE setting.Key = "CGO_ENABLED" ->
            [details EXCEPT !.CGOEnabled = details.CGOEnabled \/ (setting.Value = <<"1">>)]
      [] setting.Key = "GOEXPERIMENT" ->
            IF Contains(setting.Value, <<"systemcrypto">>)
            THEN [details EXCEPT !.UseSystemcrypto = TRUE]
            ELSE details
      [] OTHER -> details

(***************************************************************************)
(* checkGoBinaryFIPS: the scan of the build settings.                      *)
(***************************************************************************)
ApplySetting(details, setting) ==
    CASE setting.Key = "CGO_ENABLED" ->
            [details EXCEPT !.CGOEnabled = (setting.Value = <<"1">>)]
      [] setting.Key = "GOEXPERIMENT" ->
            IF Contains(setting.Value, <<"systemcrypto">>)
            THEN [details EXCEPT !.UseSystemcrypto = TRUE]
            ELSE details
      [] OTHER -> details

RECURSIVE ScanSettings(_, _)
ScanSettings(details, settings) ==
    IF settings = <<>> THEN details
    ELSE ScanSettings(ApplySetting(details, Head(settings)), Tail(settings))

\* details after the static analysis of a readable build info
StaticDetails(info) ==
    ScanSettings([ZeroDetails EXCEPT !.GoVersion = info.GoVersion,
                                     !.Module = info.MainPath],
                 info.Settings)

(***************************************************************************)
(* checkRuntimeFIPS: the verdict on a finished cmd.Run().                  *)
(*   runErr    cmd.Run() returned a non-nil error                          *)
(*   deadline  execCtx.Err() == context.DeadlineExceeded                   *)
(***************************************************************************)
HasPanicIndicator(stderrOutput) ==
    \E k \in 1..Len(fipsPanicIndicators) : Contains(stderrOutput, fipsPanicIndicators[k])

\* A verdict that fails a run that ended with an error and mentions FIPS.
RuntimeResultFipsWord(stderrOutput, runErr, deadline) ==
    IF HasPanicIndicator(stderrOutput)
    THEN [passed |-> FALSE, panicLog |-> stderrOutput, err |-> ErrNil]
    ELSE IF runErr /\ deadline
    THEN [passed |-> TRUE, panicLog |-> stderrOutput, err |-> ErrNil]
    ELSE IF runErr /\ ~Contains(stderrOutput, <<"FIPS">>)
    THEN [passed |-> TRUE, panicLog |-> stderrOutput, err |-> ErrNil]
    ELSE [passed |-> ~runErr, panicLog |-> stderrOutput, err |-> ErrNil]

RuntimeResult(stderrOutput, runErr, deadline) ==
    IF HasPanicIndicator(stderrOutput)
    THEN [passed |-> FALSE, panicLog |-> stderrOutput, err |-> ErrNil]
    ELSE IF runErr /\ deadline
    THEN [passed |-> TRUE, panicLog |-> stderrOutput, err |-> ErrNil]
    ELSE IF runErr /\ ~Contains(stderrOutput, <<"FIPS">>)
    THEN [passed |-> TRUE, panicLog |-> stderrOutput, err |-> ErrNil]
    ELSE [passed |-> TRUE, panicLog |-> stderrOutput, err |-> ErrNil]

\* A checkGoBinaryFIPS that forgets to store the panic log.
WithRuntimeNoLog(details, r) ==
    IF r.err # ErrNil
    THEN [details |-> details, err |-> ErrRuntime]
    ELSE [details |-> [details EXCEPT !.FailsOnFIPSCheck = ~r.passed],
          err |-> ErrNil]

\* checkGoBinaryFIPS after checkRuntimeFIPS returned r
WithRuntime(details, r) ==
    IF r.err # ErrNil
    THEN [details |-> details, err |-> ErrRuntime]
    ELSE [details |-> [details EXCEPT !.RuntimePanicLog = r.panicLog,
                                      !.FailsOnFIPSCheck = ~r.passed],
          err |-> ErrNil]

(***************************************************************************)
(* The compliance evaluator.                                               *)
(***************************************************************************)
\* An evaluator that looks at the host first.
ComplianceEvaluatorHostFirst(usesSystemCrypto, runtimeProbePassed, hostFipsCapable) ==
    IF ~hostFipsCapable
    THEN [verdict |-> "NOT_COMPLIANT",
          reason |-> "host lacks a validated cryptographic module"]
    ELSE IF ~usesSystemCrypto
    THEN [verdict |-> "NOT_COMPLIANT", reason |-> "crypto backend not engaged"]
    ELSE IF ~runtimeProbePassed
    THEN [verdict |-> "NOT_COMPLIANT", reason |-> "runtime refused strict mode"]
    ELSE [verdict |-> "COMPLIANT", reason |-> "none"]

ComplianceEvaluator(usesSystemCrypto, runtimeProbePassed, hostFipsCapable) ==
    IF ~usesSystemCrypto
    THEN [verdict |-> "NOT_COMPLIANT", reason |-> "crypto backend not engaged"]
    ELSE IF ~runtimeProbePassed
    THEN [verdict |-> "NOT_COMPLIANT", reason |-> "runtime refused strict mode"]
    ELSE IF ~hostFipsCapable
    THEN [verdict |-> "NOT_COMPLIANT",
          reason |-> "host lacks a validated cryptographic module"]
    ELSE [verdict |-> "COMPLIANT", reason |-> "none"]

\* An evaluator that also insists on cgo.
IsBinaryFIPSCompliantNeedsCgo(details, hostCapable) ==
    /\ details.CGOEnabled
    /\ ComplianceEvaluator(details.UseSystemcrypto, ~details.FailsOnFIPSCheck,
                           hostCapable).verdict = "COMPLIANT"

IsBinaryFIPSCompliant(details, hostCapable) ==
    ComplianceEvaluator(details.UseSystemcrypto, ~details.FailsOnFIPSCheck,
                        hostCapable).verdict = "COMPLIANT"

(***************************************************************************)
(* The filesystem as filepath.WalkDir presents it: one record per callback.*)
(*   err    the callback's err argument is non-nil                         *)
(*   mode   permission bits of os.Stat (statOk: os.Stat succeeded)         *)
(*   elf    elf.Open succeeds;  goinfo  buildinfo.ReadFile succeeds        *)
(***************************************************************************)
Entry(path, err, isDir, statOk, mode, elf, goinfo) ==
    [path |-> path, err |-> err, isDir |-> isDir, statOk |-> statOk, mode |-> mode,
     elf |-> elf, goinfo |-> goinfo]

DirEntry     == Entry(<<"/usr/">>, FALSE, TRUE, TRUE, 493, FALSE, FALSE)
ReadErrEntry == Entry(<<"/usr/">>, TRUE, TRUE, TRUE, 493, FALSE, FALSE)
GoBinEntry   == Entry(<<"/usr/", "app">>, FALSE, FALSE, TRUE, 493, TRUE, TRUE)
ProcBinEntry == Entry(<<"/proc/", "1/exe">>, FALSE, FALSE, TRUE, 493, TRUE, TRUE)
NoExecEntry  == Entry(<<"/usr/", "lib.so">>, FALSE, FALSE, TRUE, 420, TRUE, TRUE)
ScriptEntry  == Entry(<<"/usr/", "run.sh">>, FALSE, FALSE, TRUE, 493, FALSE, FALSE)
ElfEntry     == Entry(<<"/usr/", "ls">>, FALSE, FALSE, TRUE, 493, TRUE, FALSE)
DanglingEntry == Entry(<<"/usr/", "link">>, FALSE, FALSE, FALSE, 0, FALSE, FALSE)

EntryKinds ==
    {DirEntry, ReadErrEntry, GoBinEntry, ProcBinEntry, NoExecEntry, ScriptEntry,
     ElfEntry, DanglingEntry}

\* Bitwise and of two naturals.
RECURSIVE BitAnd(_, _)
BitAnd(a, b) ==
    IF a = 0 \/ b = 0 THEN 0
    ELSE 2 * BitAnd(a \div 2, b \div 2) + (IF a % 2 = 1 /\ b % 2 = 1 THEN 1 ELSE 0)

\* A classifier that takes every executable ELF file for a Go binary.
isBinaryAnyElf(e) ==
    IF ~e.statOk THEN FALSE
    ELSE IF BitAnd(e.mode, 73) = 0 THEN FALSE
    ELSE IF ~e.elf THEN FALSE
    ELSE TRUE

isBinary(e) ==
    IF ~e.statOk THEN FALSE
    ELSE IF BitAnd(e.mode, 73) = 0 THEN FALSE
    ELSE IF ~e.elf THEN FALSE
    ELSE IF ~e.goinfo THEN FALSE
    ELSE TRUE

excludedPrefixes == << <<"/proc/">>, <<"/sys/">>, <<"/dev/">> >>

\* An exclusion that only matches the excluded directories themselves.
shouldExcludePathExact(filePath) ==
    \E k \in 1..Len(excludedPrefixes) : filePath = excludedPrefixes[k]

shouldExcludePath(filePath) ==
    \E k \in 1..Len(excludedPrefixes) : HasPrefix(filePath, excludedPrefixes[k])

\* The callback sequences WalkDir can produce: the root comes first; a root
\* that cannot be lstat'ed or is no directory is the only callback; any other
\* error callback reports the ReadDir error of the directory visited just
\* before it.
WellFormedTree(t) ==
    /\ Len(t) >= 1
    /\ (t[1].err \/ ~t[1].isDir) => Len(t) = 1
    /\ \A k \in 2..Len(t) : t[k].err => (t[k-1].isDir /\ ~t[k-1].err)

Trees ==
    { t \in UNION { [1..n -> EntryKinds] : n \in 1..MaxVisits } : WellFormedTree(t) }

(***************************************************************************)
(* State.                                                                  *)
(***************************************************************************)
NoHost == [known |-> FALSE, FIPSCapable |-> FALSE]
NoRet == [isNil |-> TRUE, reports |-> <<>>, err |-> ErrNil]
NoCall == [fn |-> "none"]

N == Len(binaryPaths)
Tasks == 1..Len(tpc)

Init ==
    /\ tree \in Trees
    /\ walkPos = 0
    /\ examined = {}
    /\ binaryPaths = <<>>
    /\ mainpc = "start"
    /\ cancelled = FALSE
    /\ host = NoHost
    /\ hostCalls = 0
    /\ tpc = <<>>
    /\ local = <<>>
    /\ reports = <<>>
    /\ writes = <<>>
    /\ semaphore = {}
    /\ mu = 0
    /\ wg = 0
    /\ probe = <<>>
    /\ ret = NoRet
    /\ evals = <<>>
    /\ call = NoCall

(***************************************************************************)
(* The environment: the cancellation signal (ctx is cancelled by a signal, *)
(* a deadline or the caller; once done it stays done).                     *)
(***************************************************************************)
Cancel ==
    /\ ~cancelled
    /\ cancelled' = TRUE
    /\ UNCHANGED <<tree, walkPos, examined, binaryPaths, mainpc, host, hostCalls, tpc,
                   local, reports, writes, semaphore, mu, wg, probe, ret, evals, call>>

(***************************************************************************)
(* main: checkHost() and then Check(ctx, root).                            *)
(***************************************************************************)
CheckHost ==
    /\ mainpc = "start"
    /\ \E capable \in BOOLEAN : host' = [known |-> TRUE, FIPSCapable |-> capable]
    /\ hostCalls' = hostCalls + 1
    /\ mainpc' = "walk"
    /\ UNCHANGED <<tree, walkPos, examined, binaryPaths, cancelled, tpc, local, reports,
                   writes, semaphore, mu, wg, probe, ret, evals, call>>

\* A callback without the err != nil test: an entry that could not be read
\* is taken for a file and collected.
WalkVisitKeepsUnreadable ==
    /\ mainpc = "walk"
    /\ walkPos < Len(tree)
    /\ LET pos == walkPos + 1
           d == tree[pos]
       IN IF cancelled
          THEN /\ walkPos' = pos
               /\ mainpc' = "returned"
               /\ ret' = [isNil |-> TRUE, reports |-> <<>>, err |-> ErrWalk]
               /\ UNCHANGED <<examined, binaryPaths>>
          ELSE /\ walkPos' = pos
               /\ examined' = examined \cup {pos}
               /\ binaryPaths' =
                     IF d.err \/ (~d.isDir /\ ~shouldExcludePath(d.path) /\ isBinary(d))
                     THEN Append(binaryPaths, pos)
                     ELSE binaryPaths
               /\ UNCHANGED <<mainpc, ret>>
    /\ UNCHANGED <<tree, cancelled, host, hostCalls, tpc, local, reports, writes,
                   semaphore, mu, wg, probe, evals, call>>

\* A callback that hands the entry's error back to WalkDir, which stops.
WalkVisitAbortsOnError ==
    /\ mainpc = "walk"
    /\ walkPos < Len(tree)
    /\ LET pos == walkPos + 1
           d == tree[pos]
       IN IF d.err \/ cancelled
          THEN /\ walkPos' = pos
               /\ mainpc' = "returned"
               /\ ret' = [isNil |-> TRUE, reports |-> <<>>, err |-> ErrWalk]
               /\ UNCHANGED <<examined, binaryPaths>>
          ELSE /\ walkPos' = pos
               /\ examined' = examined \cup {pos}
               /\ binaryPaths' =
                     IF ~d.isDir /\ ~shouldExcludePath(d.path) /\ isBinary(d)
                     THEN Append(binaryPaths, pos)
                     ELSE binaryPaths
               /\ UNCHANGED <<mainpc, ret>>
    /\ UNCHANGED <<tree, cancelled, host, hostCalls, tpc, local, reports, writes,
                   semaphore, mu, wg, probe, evals, call>>

\* One callback of filepath.WalkDir.
WalkVisit ==
    /\ mainpc = "walk"
    /\ walkPos < Len(tree)
    /\ LET pos == walkPos + 1
           d == tree[pos]
       IN IF d.err
          THEN \* skip what cannot be read
               /\ walkPos' = pos
               /\ UNCHANGED <<examined, binaryPaths, mainpc, ret>>
          ELSE IF cancelled
          THEN \* return ctx.Err(): WalkDir stops, Check wraps the error
               /\ walkPos' = pos
               /\ mainpc' = "returned"
               /\ ret' = [isNil |-> TRUE, reports |-> <<>>, err |-> ErrWalk]
               /\ UNCHANGED <<examined, binaryPaths>>
          ELSE /\ walkPos' = pos
               /\ examined' = examined \cup {pos}
               /\ binaryPaths' =
                     IF ~d.isDir /\ ~shouldExcludePath(d.path) /\ isBinary(d)
                     THEN Append(binaryPaths, pos)
                     ELSE binaryPaths
               /\ UNCHANGED <<mainpc, ret>>
    /\ UNCHANGED <<tree, cancelled, host, hostCalls, tpc, local, reports, writes,
                   semaphore, mu, wg, probe, evals, call>>

\* A Check that treats a walk without candidates as a failure.
WalkEndRejectsEmpty ==
    /\ mainpc = "walk"
    /\ walkPos = Len(tree)
    /\ IF N = 0
       THEN /\ mainpc' = "returned"
            /\ ret' = [isNil |-> TRUE, reports |-> <<>>, err |-> ErrWalk]
       ELSE /\ mainpc' = "dispatch"
            /\ UNCHANGED ret
    /\ reports' = [i \in 1..N |-> ZeroReport]
    /\ writes' = [i \in 1..N |-> <<>>]
    /\ UNCHANGED <<tree, walkPos, examined, binaryPaths, cancelled, host, hostCalls, tpc,
                   local, semaphore, mu, wg, probe, evals, call>>

\* WalkDir returned nil: reports := make([]BinaryReport, len(binaryPaths)).
WalkEnd ==
    /\ mainpc = "walk"
    /\ walkPos = Len(tree)
    /\ mainpc' = "dispatch"
    /\ reports' = [i \in 1..N |-> ZeroReport]
    /\ writes' = [i \in 1..N |-> <<>>]
    /\ UNCHANGED <<tree, walkPos, examined, binaryPaths, cancelled, host, hostCalls, tpc,
                   local, semaphore, mu, wg, probe, ret, evals, call>>

\* The select on ctx.Done() at the top of the dispatch loop.
DispatchSkipsCheck == FALSE

DispatchSeesCancel == cancelled

\* A dispatch loop that starts goroutines while the walk still runs.
DispatchDuringWalk ==
    /\ mainpc \in {"walk", "dispatch"}
    /\ Len(tpc) < N
    /\ IF DispatchSeesCancel
       THEN /\ mainpc' = "returned"
            /\ ret' = [isNil |-> TRUE, reports |-> <<>>, err |-> ErrCanceled]
            /\ UNCHANGED <<tpc, local, probe, wg>>
       ELSE /\ wg' = wg + 1
            /\ tpc' = Append(tpc, "waiting")
            /\ local' = Append(local, ZeroReport)
            /\ probe' = Append(probe, "none")
            /\ UNCHANGED <<mainpc, ret>>
    /\ UNCHANGED <<tree, walkPos, examined, binaryPaths, cancelled, host, hostCalls,
                   reports, writes, semaphore, mu, evals, call>>

\* One iteration of the dispatch loop.
Dispatch ==
    /\ mainpc = "dispatch"
    /\ Len(tpc) < N
    /\ IF DispatchSeesCancel
       THEN /\ mainpc' = "returned"
            /\ ret' = [isNil |-> TRUE, reports |-> <<>>, err |-> ErrCanceled]
            /\ UNCHANGED <<tpc, local, probe, wg>>
       ELSE /\ wg' = wg + 1
            /\ tpc' = Append(tpc, "waiting")
            /\ local' = Append(local, ZeroReport)
            /\ probe' = Append(probe, "none")
            /\ UNCHANGED <<mainpc, ret>>
    /\ UNCHANGED <<tree, walkPos, examined, binaryPaths, cancelled, host, hostCalls,
                   reports, writes, semaphore, mu, evals, call>>

\* A final check that gives the cancellation error only when no slot was
\* written.
FinalReturnIfUnwritten ==
    IF cancelled /\ \A i \in 1..N : writes[i] = <<>>
    THEN [isNil |-> TRUE, reports |-> <<>>, err |-> ErrCanceled]
    ELSE [isNil |-> FALSE, reports |-> reports, err |-> ErrNil]

\* What Check returns after wg.Wait().
FinalReturnNoCheck == [isNil |-> FALSE, reports |-> reports, err |-> ErrNil]

FinalReturnIfIncomplete ==
    IF cancelled /\ \E i \in 1..N : writes[i] = <<>>
    THEN [isNil |-> TRUE, reports |-> <<>>, err |-> ErrCanceled]
    ELSE [isNil |-> FALSE, reports |-> reports, err |-> ErrNil]

FinalReturn ==
    IF cancelled
    THEN [isNil |-> TRUE, reports |-> <<>>, err |-> ErrCanceled]
    ELSE [isNil |-> FALSE, reports |-> reports, err |-> ErrNil]

\* The loop is over: wg.Wait(), then the final look at ctx.Err().
WaitAndReturn ==
    /\ mainpc = "dispatch"
    /\ Len(tpc) = N
    /\ wg = 0
    /\ mainpc' = "returned"
    /\ ret' = FinalReturn
    /\ UNCHANGED <<tree, walkPos, examined, binaryPaths, cancelled, host, hostCalls, tpc,
                   local, reports, writes, semaphore, mu, wg, probe, evals, call>>

(***************************************************************************)
(* The goroutine dispatched for index i (Check, the func literal), with    *)
(* checkGoBinaryFIPS and checkRuntimeFIPS inlined.                         *)
(*   waiting   blocked on  semaphore <- struct{}{}                         *)
(*   admitted  holds a permit, about to look at ctx.Done()                 *)
(*   check     about to call checkGoBinaryFIPS                             *)
(*   run       static analysis done, about to call cmd.Run()               *)
(*   probing   the subprocess runs                                         *)
(*   lock      report complete, blocked on mu.Lock()                       *)
(*   writing   holds mu                                                    *)
(*   exiting   about to run the deferred calls                             *)
(*   done      wg.Done() was called                                        *)
(***************************************************************************)
\* A send on the semaphore channel goes through while the buffer has room.
GateUnbounded == TRUE

GateHasRoom == Cardinality(semaphore) < MaxParallel

Acquire(i) ==
    /\ tpc[i] = "waiting"
    /\ GateHasRoom
    /\ semaphore' = semaphore \cup {i}
    /\ tpc' = [tpc EXCEPT ![i] = "admitted"]
    /\ UNCHANGED <<tree, walkPos, examined, binaryPaths, mainpc, cancelled, host,
                   hostCalls, local, reports, writes, mu, wg, probe, ret, evals, call>>

\* A goroutine that returns on cancellation without giving its permit back.
AdmittedLeaksOnCancel(i) ==
    /\ tpc[i] = "admitted"
    /\ IF cancelled
       THEN /\ tpc' = [tpc EXCEPT ![i] = "done"]
            /\ wg' = wg - 1
            /\ UNCHANGED local
       ELSE /\ tpc' = [tpc EXCEPT ![i] = "check"]
            /\ local' = [local EXCEPT ![i] =
                            [ZeroReport EXCEPT !.RelativePath = binaryPaths[i],
                                               !.Type = "gobinary"]]
            /\ UNCHANGED wg
    /\ UNCHANGED <<tree, walkPos, examined, binaryPaths, mainpc, cancelled, host,
                   hostCalls, reports, writes, semaphore, mu, probe, ret, evals, call>>

\* The select on ctx.Done() right after admission, then the fresh report.
Admitted(i) ==
    /\ tpc[i] = "admitted"
    /\ IF cancelled
       THEN /\ tpc' = [tpc EXCEPT ![i] = "exiting"]
            /\ UNCHANGED local
       ELSE /\ tpc' = [tpc EXCEPT ![i] = "check"]
            /\ local' = [local EXCEPT ![i] =
                            [ZeroReport EXCEPT !.RelativePath = binaryPaths[i],
                                               !.Type = "gobinary"]]
    /\ UNCHANGED <<tree, walkPos, examined, binaryPaths, mainpc, cancelled, host,
                   hostCalls, reports, writes, semaphore, mu, wg, probe, ret, evals, call>>

\* A check whose build info failure ends the whole scan with that error.
CheckStaticAborts(i) ==
    /\ tpc[i] = "check"
    /\ IF cancelled
       THEN /\ local' = [local EXCEPT ![i].Error = ErrCanceled]
            /\ tpc' = [tpc EXCEPT ![i] = "lock"]
            /\ UNCHANGED <<mainpc, ret>>
       ELSE \/ /\ local' = [local EXCEPT ![i].Error = ErrBuildInfo]
               /\ tpc' = [tpc EXCEPT ![i] = "lock"]
               /\ mainpc' = "returned"
               /\ ret' = [isNil |-> TRUE, reports |-> <<>>, err |-> ErrBuildInfo]
            \/ \E info \in BuildInfoSamples :
               /\ local' = [local EXCEPT ![i].GoBinaryDetails = StaticDetails(info)]
               /\ tpc' = [tpc EXCEPT ![i] = "run"]
               /\ UNCHANGED <<mainpc, ret>>
    /\ UNCHANGED <<tree, walkPos, examined, binaryPaths, cancelled, host,
                   hostCalls, reports, writes, semaphore, mu, wg, probe, evals, call>>

\* A check that goes on to the probe although the build info is unreadable.
CheckStaticProbesAnyway(i) ==
    /\ tpc[i] = "check"
    /\ IF cancelled
       THEN /\ local' = [local EXCEPT ![i].Error = ErrCanceled]
            /\ tpc' = [tpc EXCEPT ![i] = "lock"]
       ELSE \/ /\ local' = [local EXCEPT ![i].Error = ErrBuildInfo]
               /\ tpc' = [tpc EXCEPT ![i] = "run"]
            \/ \E info \in BuildInfoSamples :
               /\ local' = [local EXCEPT ![i].GoBinaryDetails = StaticDetails(info)]
               /\ tpc' = [tpc EXCEPT ![i] = "run"]
    /\ UNCHANGED <<tree, walkPos, examined, binaryPaths, mainpc, cancelled, host,
                   hostCalls, reports, writes, semaphore, mu, wg, probe, ret, evals, call>>

\* checkGoBinaryFIPS up to the call of checkRuntimeFIPS: the select on
\* ctx.Done(), buildinfo.ReadFile and the scan of the settings.  The file may
\* have changed since the walk, so the read may fail.
CheckStatic(i) ==
    /\ tpc[i] = "check"
    /\ IF cancelled
       THEN /\ local' = [local EXCEPT ![i].Error = ErrCanceled]
            /\ tpc' = [tpc EXCEPT ![i] = "lock"]
       ELSE \/ /\ local' = [local EXCEPT ![i].Error = ErrBuildInfo]
               /\ tpc' = [tpc EXCEPT ![i] = "lock"]
            \/ \E info \in BuildInfoSamples :
               /\ local' = [local EXCEPT ![i].GoBinaryDetails = StaticDetails(info)]
               /\ tpc' = [tpc EXCEPT ![i] = "run"]
    /\ UNCHANGED <<tree, walkPos, examined, binaryPaths, mainpc, cancelled, host,
                   hostCalls, reports, writes, semaphore, mu, wg, probe, ret, evals, call>>

\* The report once checkRuntimeFIPS returned r.
Finished(rep, r) ==
    LET out == WithRuntime(rep.GoBinaryDetails, r)
    IN [rep EXCEPT !.GoBinaryDetails = out.details, !.Error = out.err]

\* exec.Cmd.Start returns execCtx.Err() without starting a process when
\* execCtx, a child of ctx, is already done.
StartNeverRefused == FALSE

StartRefused == cancelled

\* cmd.Run(): Start may refuse or fail to start the process; otherwise the
\* subprocess runs.  Start's look at execCtx and the fork are one step.
RunStart(i) ==
    /\ tpc[i] = "run"
    /\ IF StartRefused
       THEN /\ probe' = [probe EXCEPT ![i] = "refused"]
            /\ local' = [local EXCEPT ![i] =
                            Finished(local[i], RuntimeResult(<<>>, TRUE, FALSE))]
            /\ tpc' = [tpc EXCEPT ![i] = "lock"]
       ELSE \/ /\ probe' = [probe EXCEPT ![i] = "startfailed"]
               /\ local' = [local EXCEPT ![i] =
                               Finished(local[i], RuntimeResult(<<>>, TRUE, FALSE))]
               /\ tpc' = [tpc EXCEPT ![i] = "lock"]
            \/ /\ probe' = [probe EXCEPT ![i] = "running"]
               /\ tpc' = [tpc EXCEPT ![i] = "probing"]
               /\ UNCHANGED local
    /\ UNCHANGED <<tree, walkPos, examined, binaryPaths, mainpc, cancelled, host,
                   hostCalls, reports, writes, semaphore, mu, wg, ret, evals, call>>

\* The subprocess exits by itself, cleanly or not.
ProbeExit(i) ==
    /\ tpc[i] = "probing"
    /\ \E stderrOutput \in StderrSamples, runErr \in BOOLEAN :
          local' = [local EXCEPT ![i] =
                       Finished(local[i], RuntimeResult(stderrOutput, runErr, FALSE))]
    /\ probe' = [probe EXCEPT ![i] = "exited"]
    /\ tpc' = [tpc EXCEPT ![i] = "lock"]
    /\ UNCHANGED <<tree, walkPos, examined, binaryPaths, mainpc, cancelled, host,
                   hostCalls, reports, writes, semaphore, mu, wg, ret, evals, call>>

\* A probe without a deadline.
ProbeNoDeadline(i) ==
    /\ tpc[i] = "probing"
    /\ FALSE
    /\ UNCHANGED vars

\* A probe that is run again after it timed out.
ProbeTimeoutRetries(i) ==
    /\ tpc[i] = "probing"
    /\ probe' = [probe EXCEPT ![i] = "timeout"]
    /\ tpc' = [tpc EXCEPT ![i] = "run"]
    /\ UNCHANGED <<tree, walkPos, examined, binaryPaths, mainpc, cancelled, host,
                   hostCalls, local, reports, writes, semaphore, mu, wg, ret, evals, call>>

\* The 2 second deadline of execCtx passes: the subprocess is killed.
ProbeTimeout(i) ==
    /\ tpc[i] = "probing"
    /\ \E stderrOutput \in StderrSamples :
          local' = [local EXCEPT ![i] =
                       Finished(local[i], RuntimeResult(stderrOutput, TRUE, TRUE))]
    /\ probe' = [probe EXCEPT ![i] = "timeout"]
    /\ tpc' = [tpc EXCEPT ![i] = "lock"]
    /\ UNCHANGED <<tree, walkPos, examined, binaryPaths, mainpc, cancelled, host,
                   hostCalls, reports, writes, semaphore, mu, wg, ret, evals, call>>

\* execCtx is derived from ctx: when ctx is cancelled exec.CommandContext
\* kills the subprocess.
KillAnytime == TRUE

KillOnCancel == cancelled

ProbeKilled(i) ==
    /\ tpc[i] = "probing"
    /\ KillOnCancel
    /\ \E stderrOutput \in StderrSamples :
          local' = [local EXCEPT ![i] =
                       Finished(local[i], RuntimeResult(stderrOutput, TRUE, FALSE))]
    /\ probe' = [probe EXCEPT ![i] = "killed"]
    /\ tpc' = [tpc EXCEPT ![i] = "lock"]
    /\ UNCHANGED <<tree, walkPos, examined, binaryPaths, mainpc, cancelled, host,
                   hostCalls, reports, writes, semaphore, mu, wg, ret, evals, call>>

\* A lock that does not wait for the holder.
LockNoWait(i) ==
    /\ tpc[i] = "lock"
    /\ mu' = i
    /\ tpc' = [tpc EXCEPT ![i] = "writing"]
    /\ UNCHANGED <<tree, walkPos, examined, binaryPaths, mainpc, cancelled, host,
                   hostCalls, local, reports, writes, semaphore, wg, probe, ret, evals, call>>

\* mu.Lock()
Lock(i) ==
    /\ tpc[i] = "lock"
    /\ mu = 0
    /\ mu' = i
    /\ tpc' = [tpc EXCEPT ![i] = "writing"]
    /\ UNCHANGED <<tree, walkPos, examined, binaryPaths, mainpc, cancelled, host,
                   hostCalls, local, reports, writes, semaphore, wg, probe, ret, evals, call>>

\* A slot write that appends: the report goes to the first slot still free,
\* so that the collection is in completion order.
WriteFirstFree(i) ==
    /\ tpc[i] = "writing"
    /\ LET k == CHOOSE s \in 1..N : writes[s] = <<>> /\ \A r \in 1..(s - 1) : writes[r] # <<>>
       IN /\ reports' = [reports EXCEPT ![k] = local[i]]
          /\ writes' = [writes EXCEPT ![k] = Append(@, i)]
    /\ mu' = 0
    /\ tpc' = [tpc EXCEPT ![i] = "exiting"]
    /\ local' = [local EXCEPT ![i] = ZeroReport]
    /\ UNCHANGED <<tree, walkPos, examined, binaryPaths, mainpc, cancelled, host,
                   hostCalls, semaphore, wg, probe, ret, evals, call>>

\* A slot write through the loop variable instead of the goroutine's own idx:
\* the report goes to the slot of the goroutine dispatched last.
WriteLoopVariable(i) ==
    /\ tpc[i] = "writing"
    /\ reports' = [reports EXCEPT ![Len(tpc)] = local[i]]
    /\ writes' = [writes EXCEPT ![Len(tpc)] = Append(@, i)]
    /\ mu' = 0
    /\ tpc' = [tpc EXCEPT ![i] = "exiting"]
    /\ local' = [local EXCEPT ![i] = ZeroReport]
    /\ UNCHANGED <<tree, walkPos, examined, binaryPaths, mainpc, cancelled, host,
                   hostCalls, semaphore, wg, probe, ret, evals, call>>

\* reports[idx] = report; mu.Unlock().  The local report is dead afterwards.
Write(i) ==
    /\ tpc[i] = "writing"
    /\ reports' = [reports EXCEPT ![i] = local[i]]
    /\ writes' = [writes EXCEPT ![i] = Append(@, i)]
    /\ mu' = 0
    /\ tpc' = [tpc EXCEPT ![i] = "exiting"]
    /\ local' = [local EXCEPT ![i] = ZeroReport]
    /\ UNCHANGED <<tree, walkPos, examined, binaryPaths, mainpc, cancelled, host,
                   hostCalls, semaphore, wg, probe, ret, evals, call>>

\* The deferred calls: <-semaphore, then wg.Done().
Exit(i) ==
    /\ tpc[i] = "exiting"
    /\ semaphore' = semaphore \ {i}
    /\ wg' = wg - 1
    /\ tpc' = [tpc EXCEPT ![i] = "done"]
    /\ UNCHANGED <<tree, walkPos, examined, binaryPaths, mainpc, cancelled, host,
                   hostCalls, local, reports, writes, mu, probe, ret, evals, call>>

Task(i) ==
    \/ Acquire(i)
    \/ Admitted(i)
    \/ CheckStatic(i)
    \/ RunStart(i)
    \/ ProbeExit(i)
    \/ ProbeTimeout(i)
    \/ ProbeKilled(i)
    \/ Lock(i)
    \/ Write(i)
    \/ Exit(i)

Next ==
    \/ Cancel
    \/ CheckHost
    \/ WalkVisit
    \/ WalkEnd
    \/ Dispatch
    \/ WaitAndReturn
    \/ \E i \in Tasks : Task(i)

Spec == Init /\ [][Next]_vars

(***************************************************************************)
(* The consumer of a scan: once Check has returned it calls the evaluator, *)
(* on the details of a report or on details it made up, with a host        *)
(* capability flag.  evals keeps the last two calls.                       *)
(***************************************************************************)
EvalCall(usc, cgo, fails, hostCapable) ==
    LET details == [ZeroDetails EXCEPT !.UseSystemcrypto = usc, !.CGOEnabled = cgo,
                                       !.FailsOnFIPSCheck = fails]
    IN [usesSystemCrypto |-> usc, cgoEnabled |-> cgo, runtimeProbePassed |-> ~fails,
        hostFipsCapable |-> hostCapable,
        out |-> ComplianceEvaluator(usc, ~fails, hostCapable),
        compliant |-> IsBinaryFIPSCompliant(details, hostCapable)]

\* The newest call of a history, as a history.
Newest(history) == IF history = <<>> THEN <<>> ELSE <<history[1]>>

\* A buggy evaluator call that stores the flag it was given as the host's.
EvaluateStoringHost ==
    /\ mainpc = "returned"
    /\ \E usc \in BOOLEAN, cgo \in BOOLEAN, fails \in BOOLEAN, hostCapable \in BOOLEAN :
          /\ evals' = <<EvalCall(usc, cgo, fails, hostCapable)>> \o Newest(evals)
          /\ host' = [known |-> TRUE, FIPSCapable |-> hostCapable]
    /\ UNCHANGED <<tree, walkPos, examined, binaryPaths, mainpc, cancelled, hostCalls,
                   tpc, local, reports, writes, semaphore, mu, wg, probe, ret, call>>

Evaluate ==
    /\ mainpc = "returned"
    /\ \E usc \in BOOLEAN, cgo \in BOOLEAN, fails \in BOOLEAN, hostCapable \in BOOLEAN :
          evals' = <<EvalCall(usc, cgo, fails, hostCapable)>> \o Newest(evals)
    /\ UNCHANGED scanVars

\* The consumer's workflow on a small tree: host check, scan, evaluations.
MaxEvalVisits == 2

InitEval == Init /\ Len(tree) <= MaxEvalVisits

NextEval == Next \/ Evaluate

SpecEval == InitEval /\ [][NextEval]_vars

(***************************************************************************)
(* One direct call of checkGoBinaryFIPS on one Go binary, past the reading *)
(* of the build info: the subprocess wrote stderrOutput, cmd.Run() did or  *)
(* did not return an error, execCtx did or did not pass its deadline.      *)
(***************************************************************************)
CheckGoBinaryFIPSCall ==
    /\ mainpc = "start"
    /\ call = NoCall
    /\ \E info \in BuildInfoSamples, stderrOutput \in StderrTexts,
          runErr \in BOOLEAN, deadline \in BOOLEAN :
          LET runtime == RuntimeResult(stderrOutput, runErr, deadline)
              fresh == [ZeroReport EXCEPT !.RelativePath = 1, !.Type = "gobinary",
                                          !.GoBinaryDetails = StaticDetails(info)]
          IN call' = [fn |-> "checkGoBinaryFIPS", info |-> info,
                      stderrOutput |-> stderrOutput, runErr |-> runErr,
                      deadline |-> deadline, runtime |-> runtime,
                      report |-> Finished(fresh, runtime)]
    /\ UNCHANGED <<tree, walkPos, examined, binaryPaths, mainpc, cancelled, host,
                   hostCalls, tpc, local, reports, writes, semaphore, mu, wg, probe, ret,
                   evals>>

InitProbe == Init /\ tree = <<GoBinEntry>>

NextProbe == CheckGoBinaryFIPSCall

SpecProbe == InitProbe /\ [][NextProbe]_vars

(***************************************************************************)
(* The static analysis of checkGoBinaryFIPS called on every list of at     *)
(* most MaxSettings build settings, repeated keys included.                *)
(***************************************************************************)
MaxSettings == 3

SettingKeys == {"CGO_ENABLED", "GOEXPERIMENT", "GOOS"}

SettingValues ==
    { <<"1">>, <<"0">>, <<"1", "1">>, <<"systemcrypto">>,
      <<"nocoverageredesign", ",", "systemcrypto">>, <<"boringcrypto">> }

SettingSamples == { Setting(k, v) : k \in SettingKeys, v \in SettingValues }

SettingLists == UNION { [1..n -> SettingSamples] : n \in 0..MaxSettings }

StaticAnalysisCall ==
    /\ mainpc = "start"
    /\ call = NoCall
    /\ \E settings \in SettingLists :
          LET info == [GoVersion |-> "go1.24.6", MainPath |-> "example.com/app",
                       Settings |-> settings]
          IN call' = [fn |-> "staticAnalysis", info |-> info,
                      details |-> StaticDetails(info)]
    /\ UNCHANGED <<tree, walkPos, examined, binaryPaths, mainpc, cancelled, host,
                   hostCalls, tpc, local, reports, writes, semaphore, mu, wg, probe, ret,
                   evals>>

NextSettings == StaticAnalysisCall

SpecSettings == InitProbe /\ [][NextSettings]_vars

(***************************************************************************)
(* The SDK workflow (TestSDKWorkflow): the host check, the scan, and then  *)
(* the loop over the reports that evaluates each report's details against  *)
(* hostInfo.FIPSCapable.  call holds the loop index.                       *)
(***************************************************************************)
MaxAnalyzed == 3

AnalyzeIndex == IF call = NoCall THEN 1 ELSE call.i + 1

\* A loop that asks the provider again for every report.
AnalyzeAsksHost ==
    /\ mainpc = "returned"
    /\ ret.err = ErrNil
    /\ AnalyzeIndex <= Len(ret.reports)
    /\ AnalyzeIndex <= MaxAnalyzed
    /\ \E capable \in BOOLEAN :
          LET d == ret.reports[AnalyzeIndex].GoBinaryDetails
          IN /\ host' = [known |-> TRUE, FIPSCapable |-> capable]
             /\ evals' = <<EvalCall(d.UseSystemcrypto, d.CGOEnabled, d.FailsOnFIPSCheck,
                                    capable)>> \o Newest(evals)
    /\ hostCalls' = hostCalls + 1
    /\ call' = [fn |-> "analyze", i |-> AnalyzeIndex]
    /\ UNCHANGED <<tree, walkPos, examined, binaryPaths, mainpc, cancelled,
                   tpc, local, reports, writes, semaphore, mu, wg, probe, ret>>

\* One iteration of the loop over the reports.
Analyze ==
    /\ mainpc = "returned"
    /\ ret.err = ErrNil
    /\ AnalyzeIndex <= Len(ret.reports)
    /\ AnalyzeIndex <= MaxAnalyzed
    /\ LET d == ret.reports[AnalyzeIndex].GoBinaryDetails
       IN evals' = <<EvalCall(d.UseSystemcrypto, d.CGOEnabled, d.FailsOnFIPSCheck,
                              host.FIPSCapable)>> \o Newest(evals)
    /\ call' = [fn |-> "analyze", i |-> AnalyzeIndex]
    /\ UNCHANGED <<tree, walkPos, examined, binaryPaths, mainpc, cancelled, host,
                   hostCalls, tpc, local, reports, writes, semaphore, mu, wg, probe, ret>>

NextWorkflow == Next \/ Analyze

SpecWorkflow == Init /\ [][NextWorkflow]_vars

(***************************************************************************)
(* Package opensslsetup: the choice of the OpenSSL library.  A library     *)
(* name is a sequence of tokens, so that lcryptoPrefix without its last    *)
(* character is a sequence one shorter.  checkVersion is the function      *)
(* variable of the package: for a library name, whether it exists and      *)
(* whether it is FIPS enabled.                                             *)
(***************************************************************************)
knownVersions == <<"3", "1.1", "11", "111">>

lcryptoPrefix == <<"libcrypto.so", ".">>

KnownLibraries == { lcryptoPrefix \o <<knownVersions[k]>> : k \in 1..Len(knownVersions) }

CheckVersions == [KnownLibraries -> [exists : BOOLEAN, fips : BOOLEAN]]

\* A fallback that is overwritten by every later library that exists.
KeepFallbackLatest(lcryptoFallback, lcryptoCandidate) == lcryptoCandidate

\* if lcryptoFallback == "" { lcryptoFallback = lcryptoCandidate }
KeepFallback(lcryptoFallback, lcryptoCandidate) ==
    IF lcryptoFallback = <<>> THEN lcryptoCandidate ELSE lcryptoFallback

\* The loop over knownVersions from index k on.
RECURSIVE SearchFrom(_, _, _)
SearchFrom(checkVersion, k, lcryptoFallback) ==
    IF k > Len(knownVersions) THEN lcryptoFallback
    ELSE LET lcryptoCandidate == lcryptoPrefix \o <<knownVersions[k]>>
             r == checkVersion[lcryptoCandidate]
         IN IF r.exists
            THEN IF r.fips THEN lcryptoCandidate
                 ELSE SearchFrom(checkVersion, k + 1,
                                 KeepFallback(lcryptoFallback, lcryptoCandidate))
            ELSE SearchFrom(checkVersion, k + 1, lcryptoFallback)

searchKnownLibrary(checkVersion) == SearchFrom(checkVersion, 1, <<>>)

SearchKnownLibraryCall ==
    /\ mainpc = "start"
    /\ call = NoCall
    /\ \E checkVersion \in CheckVersions :
          call' = [fn |-> "searchKnownLibrary", checkVersion |-> checkVersion,
                   out |-> searchKnownLibrary(checkVersion)]
    /\ UNCHANGED <<tree, walkPos, examined, binaryPaths, mainpc, cancelled, host,
                   hostCalls, tpc, local, reports, writes, semaphore, mu, wg, probe, ret,
                   evals>>

NextLibrary == SearchKnownLibraryCall

SpecLibrary == InitProbe /\ [][NextLibrary]_vars

(***************************************************************************)
(* library(): the environment variable GO_OPENSSL_VERSION_OVERRIDE, as     *)
(* syscall.Getenv returns it (value, found), and checkVersion.  searched   *)
(* tells whether searchKnownLibrary was called.                            *)
(***************************************************************************)
OverrideValues == { <<>>, <<"3">>, <<"1.0.2">>, <<"111">> }

Getenvs ==
    { [value |-> <<>>, found |-> FALSE] } \cup
    { [value |-> v, found |-> TRUE] : v \in OverrideValues }

\* A library() that lets the search of the known versions go first.
librarySearchFirst(env, checkVersion) ==
    LET lib == searchKnownLibrary(checkVersion)
    IN IF lib # <<>>
       THEN [out |-> lib, searched |-> TRUE]
       ELSE IF env.value # <<>>
            THEN [out |-> lcryptoPrefix \o env.value, searched |-> TRUE]
            ELSE [out |-> SubSeq(lcryptoPrefix, 1, Len(lcryptoPrefix) - 1),
                  searched |-> TRUE]

library(env, checkVersion) ==
    IF env.value # <<>>
    THEN [out |-> lcryptoPrefix \o env.value, searched |-> FALSE]
    ELSE LET lib == searchKnownLibrary(checkVersion)
         IN IF lib # <<>>
            THEN [out |-> lib, searched |-> TRUE]
            ELSE [out |-> SubSeq(lcryptoPrefix, 1, Len(lcryptoPrefix) - 1),
                  searched |-> TRUE]

LibraryCall ==
    /\ mainpc = "start"
    /\ call = NoCall
    /\ \E env \in Getenvs, checkVersion \in CheckVersions :
          LET r == library(env, checkVersion)
          IN call' = [fn |-> "library", env |-> env, checkVersion |-> checkVersion,
                      out |-> r.out, searched |-> r.searched]
    /\ UNCHANGED <<tree, walkPos, examined, binaryPaths, mainpc, cancelled, host,
                   hostCalls, tpc, local, reports, writes, semaphore, mu, wg, probe, ret,
                   evals>>

NextOverride == LibraryCall

SpecOverride == InitProbe /\ [][NextOverride]_vars

(***************************************************************************)
(* Progress.  The Go scheduler runs every goroutine that can take a step:  *)
(* the main goroutine and every dispatched goroutine is weakly fair,       *)
(* blocked only at the semaphore send, at mu.Lock() and at wg.Wait().  The *)
(* runtime timer ends execCtx after 2 seconds, so the timeout of a running *)
(* probe is a step the goroutine takes by itself.  Nothing is assumed of   *)
(* the subprocess (it may never exit) nor of the cancellation signal (it   *)
(* may never come).  The trees are a root directory of Go binaries only.   *)
(***************************************************************************)
MainProgress == CheckHost \/ WalkVisit \/ WalkEnd \/ Dispatch \/ WaitAndReturn

TaskProgress(i) ==
    /\ i \in Tasks
    /\ \/ Acquire(i)
       \/ Admitted(i)
       \/ CheckStatic(i)
       \/ RunStart(i)
       \/ ProbeTimeout(i)
       \/ Lock(i)
       \/ Write(i)
       \/ Exit(i)

Fairness ==
    /\ WF_vars(MainProgress)
    /\ \A i \in 1..(MaxVisits - 1) : WF_vars(TaskProgress(i))

InitLive ==
    /\ Init
    /\ tree[1] = DirEntry
    /\ \A k \in 2..Len(tree) : tree[k] = GoBinEntry

SpecLive == InitLive /\ [][Next]_vars /\ Fairness

(***************************************************************************)
(* Properties.                                                             *)
(***************************************************************************)
Returned == mainpc = "returned"

ReturnedCancellation == Returned /\ ret.isNil /\ ret.reports = <<>> /\ IsCancellation(ret.err)

\* The goroutines between the acquire and the release of the gate.
InGate ==
    { i \in Tasks : tpc[i] \in {"admitted", "check", "run", "probing", "lock", "writing",
                                "exiting"} }

Probing == { i \in Tasks : probe[i] = "running" }

\* C1: the evaluator answers COMPLIANT exactly when usesSystemCrypto holds,
\* the runtime probe passed and the host is FIPS capable, and NOT_COMPLIANT
\* in the seven other cases; cgoEnabled has no influence.
C1_CompliantIff ==
    \A k \in 1..Len(evals) :
        LET e == evals[k]
            all == e.usesSystemCrypto /\ e.runtimeProbePassed /\ e.hostFipsCapable
        IN /\ e.compliant <=> all
           /\ e.out.verdict = (IF all THEN "COMPLIANT" ELSE "NOT_COMPLIANT")

\* A compliant verdict for a binary built without cgo, next to a
\* non-compliant one.
C1_Witness ==
    /\ Len(evals) = 2
    /\ evals[1].compliant /\ ~evals[1].cgoEnabled
    /\ ~evals[2].compliant /\ evals[2].cgoEnabled

\* C2: the reason of a NOT_COMPLIANT verdict follows a fixed priority: the
\* crypto backend whenever usesSystemCrypto is false, else the runtime probe
\* whenever it did not pass, and the host only when both are fine and the
\* host is not FIPS capable.
C2_ReasonPriority ==
    \A k \in 1..Len(evals) :
        LET e == evals[k]
        IN /\ ~e.usesSystemCrypto => e.out.reason = "crypto backend not engaged"
           /\ (e.usesSystemCrypto /\ ~e.runtimeProbePassed)
                 => e.out.reason = "runtime refused strict mode"
           /\ e.out.reason = "host lacks a validated cryptographic module"
                 <=> (e.usesSystemCrypto /\ e.runtimeProbePassed /\ ~e.hostFipsCapable)

\* Several conditions hold at once: no systemcrypto, failed probe, host not
\* capable; and a probe failure on a host that is not capable.
C2_Witness ==
    /\ Len(evals) = 2
    /\ ~evals[1].usesSystemCrypto /\ ~evals[1].runtimeProbePassed
    /\ ~evals[1].hostFipsCapable
    /\ evals[2].usesSystemCrypto /\ ~evals[2].runtimeProbePassed
    /\ ~evals[2].hostFipsCapable

\* C3: the evaluator is total and deterministic: every call yields one of
\* the two verdicts with a reason, two calls that agree on the three inputs
\* agree on verdict and reason, and a call changes nothing of the scan
\* (reports, gate, host capability, ...).
C3_Total ==
    \A k \in 1..Len(evals) :
        /\ evals[k].out.verdict \in {"COMPLIANT", "NOT_COMPLIANT"}
        /\ evals[k].out.reason \in {"none", "crypto backend not engaged",
                                    "runtime refused strict mode",
                                    "host lacks a validated cryptographic module"}
        /\ evals[k].out.verdict = "COMPLIANT" <=> evals[k].out.reason = "none"

C3_SameInputsSameOutput ==
    Len(evals) = 2 =>
        ( ( /\ evals[1].usesSystemCrypto = evals[2].usesSystemCrypto
            /\ evals[1].runtimeProbePassed = evals[2].runtimeProbePassed
            /\ evals[1].hostFipsCapable = evals[2].hostFipsCapable )
          => ( /\ evals[1].out = evals[2].out
               /\ evals[1].compliant = evals[2].compliant ) )

C4_AllOrNothing ==
    Returned =>
        \/ /\ ret.err = ErrNil /\ ~ret.isNil
           /\ Len(ret.reports) = N
           /\ \A i \in 1..N :
                 /\ writes[i] = <<i>>
                 /\ ret.reports[i] # ZeroReport
                 /\ ret.reports[i].Type = "gobinary"
        \/ /\ ret.err # ErrNil /\ ret.isNil /\ ret.reports = <<>>

\* Check has returned an error although one slot was written and the
\* goroutine of another one returned without writing.
C4_Witness ==
    /\ Returned /\ ret.err # ErrNil
    /\ \E i, j \in Tasks :
          /\ tpc[i] = "done" /\ writes[i] = <<>>
          /\ tpc[j] = "done" /\ writes[j] = <<j>>

\* C5: never more than MaxParallel goroutines are between the acquire and
\* the release of the gate, and so never more than MaxParallel probes run.
C5_GateBound ==
    /\ Cardinality(InGate) <= MaxParallel
    /\ Cardinality(Probing) <= MaxParallel
    /\ semaphore = InGate

\* The gate is full of running probes and a further goroutine waits.
C5_Witness ==
    /\ Cardinality(Probing) = MaxParallel
    /\ \E i \in Tasks : tpc[i] = "waiting"

\* C6: when the cancellation signal has fired before any goroutine is
\* dispatched, none is dispatched, no candidate is executed, and Check, when
\* it returns, returns no reports and a cancellation error.
C6_CancelBeforeDispatch ==
    [][(cancelled /\ ~Returned /\ tpc = <<>>)
          => /\ tpc' = <<>> /\ probe' = <<>>
             /\ Returned' => ReturnedCancellation']_vars

\* Candidates were found, the signal fired before the first dispatch, and
\* Check returned the cancellation with nothing dispatched.
C6_Witness ==
    /\ Returned /\ ret.err = ErrCanceled /\ ret.isNil
    /\ N >= 2 /\ tpc = <<>>

\* C7: Check does not return while a goroutine it dispatched still runs.
C7_ReturnsAfterAllTasks ==
    Returned => \A i \in Tasks : tpc[i] = "done"

\* C8: a cancellation that fires after a dispatch and before the final look
\* at ctx.Err() makes Check return a cancellation error and no reports, even
\* when every goroutine has written its report.
C8_CancelDiscardsResults ==
    [][(cancelled /\ ~Returned /\ tpc # <<>> /\ Returned') => ReturnedCancellation']_vars

\* Every slot was written, and Check returned the cancellation.
C8_Witness ==
    /\ ReturnedCancellation
    /\ N >= 2 /\ Len(tpc) = N
    /\ \A i \in 1..N : writes[i] = <<i>> /\ reports[i].Error = ErrNil

Candidates ==
    { p \in 1..Len(tree) :
         /\ ~tree[p].err
         /\ ~tree[p].isDir
         /\ ~shouldExcludePath(tree[p].path)
         /\ isBinary(tree[p]) }

ReturnedReports == Returned /\ ret.err = ErrNil

OwnReports(p) ==
    LET fresh == [ZeroReport EXCEPT !.RelativePath = p, !.Type = "gobinary"]
    IN {[fresh EXCEPT !.Error = ErrBuildInfo]}
       \cup { Finished([fresh EXCEPT !.GoBinaryDetails = StaticDetails(info)],
                       RuntimeResult(stderrOutput, runErr, deadline)) :
                 info \in BuildInfoSamples, stderrOutput \in StderrSamples,
                 runErr \in BOOLEAN, deadline \in BOOLEAN }

C13_ScanSurvives ==
    (Returned /\ ~cancelled) =>
        /\ ret.err = ErrNil /\ ~ret.isNil
        /\ Len(ret.reports) = N
        /\ \A i \in 1..N : ret.reports[i] \in OwnReports(binaryPaths[i])

C13_FailureStaysLocal ==
    /\ Cardinality({ j \in Tasks : tpc'[j] # tpc[j] }) <= 1
    /\ \A i \in Tasks :
          /\ (local'[i] # local[i] \/ (i \in DOMAIN reports /\ reports'[i] # reports[i]))
                => tpc'[i] # tpc[i]
          /\ (tpc[i] = "check" /\ tpc'[i] = "lock")
                => /\ local'[i].Error # ErrNil
                   /\ local'[i].GoBinaryDetails = ZeroDetails
                   /\ UNCHANGED <<mainpc, ret, cancelled, binaryPaths, reports, wg,
                                  semaphore>>
          /\ (tpc[i] = "writing" /\ tpc'[i] # "writing") => reports'[i] = local[i]

ReadsAsProbePassed(report) == ~report.GoBinaryDetails.FailsOnFIPSCheck

\* C14: every returned report carries either a verdict or an error: a report
\* whose Error is set has no runtime result that reads as "probe passed", and
\* a report without Error has the result of a probe that was attempted.
C14_VerdictXorError ==
    ReturnedReports =>
        \A i \in 1..Len(ret.reports) :
            /\ ret.reports[i].Error # ErrNil => ~ReadsAsProbePassed(ret.reports[i])
            /\ ret.reports[i].Error = ErrNil => probe[i] # "none"

ProbeCalled == call.fn = "checkGoBinaryFIPS"

\* C15: the outcome of the runtime probe depends only on the captured
\* stderr: it is FAILED exactly when stderr contains one of the three marker
\* texts, whether the child exited cleanly, with an error, or was cut off by
\* the timeout; in every other case it is PASSED, and no error is returned.
C15_MarkersOnly ==
    ProbeCalled =>
        LET marked ==
               \/ Contains(call.stderrOutput,
                           <<"panic: opensslcrypto: ", "FIPS", " mode requested">>)
               \/ Contains(call.stderrOutput, <<"FIPS", " mode requested">>)
               \/ Contains(call.stderrOutput, <<"but not available in OpenSSL">>)
        IN /\ call.runtime.passed <=> ~marked
           /\ call.runtime.err = ErrNil
           /\ call.report.GoBinaryDetails.FailsOnFIPSCheck <=> marked

\* A run that ended with an error of its own and mentions FIPS on stderr
\* without any marker: PASSED.
C15_Witness ==
    /\ ProbeCalled
    /\ call.runErr /\ ~call.deadline
    /\ Contains(call.stderrOutput, <<"FIPS">>)
    /\ ~Contains(call.stderrOutput, <<" mode requested">>)
    /\ call.runtime.passed

\* C16: a candidate whose subprocess could not be started gets a report with
\* a non-nil error, so it reads neither as FAILED nor as PASSED.
C16_StartFailureIsError ==
    \A i \in Tasks :
        (probe[i] = "startfailed" /\ writes[i] = <<i>>) => reports[i].Error # ErrNil

\* C17: when the probe outcome is FAILED the report has no error,
\* FailsOnFIPSCheck is true, RuntimePanicLog is the complete captured stderr
\* and not empty, and the evaluator answers NOT_COMPLIANT for either host.
C17_FailedReport ==
    (ProbeCalled /\ ~call.runtime.passed) =>
        /\ call.report.Error = ErrNil
        /\ call.report.GoBinaryDetails.FailsOnFIPSCheck
        /\ call.report.GoBinaryDetails.RuntimePanicLog = call.stderrOutput
        /\ call.report.GoBinaryDetails.RuntimePanicLog # <<>>
        /\ \A hostCapable \in BOOLEAN :
              /\ ~IsBinaryFIPSCompliant(call.report.GoBinaryDetails, hostCapable)
              /\ ComplianceEvaluator(call.report.GoBinaryDetails.UseSystemcrypto,
                                     ~call.report.GoBinaryDetails.FailsOnFIPSCheck,
                                     hostCapable).verdict = "NOT_COMPLIANT"

\* A systemcrypto binary that printed the whole panic and was then cut off by
\* the timeout.
C17_Witness ==
    /\ ProbeCalled /\ ~call.runtime.passed
    /\ call.stderrOutput = PanicText
    /\ call.deadline /\ call.runErr
    /\ call.report.GoBinaryDetails.UseSystemcrypto

\* C18: a scan, without cancellation, of an existing directory with no
\* entries, or of any tree without candidates, returns an empty report
\* collection and no error; no goroutine is dispatched for such a tree.
C18_NoCandidates ==
    Candidates = {} =>
        /\ N = 0 /\ tpc = <<>> /\ probe = <<>> /\ wg = 0
        /\ (Returned /\ ~cancelled)
              => ret = [isNil |-> FALSE, reports |-> <<>>, err |-> ErrNil]

\* The scan of an empty directory has returned.
C18_Witness ==
    /\ Returned /\ ~cancelled
    /\ tree = <<DirEntry>>
    /\ ret.err = ErrNil /\ ret.reports = <<>>

\* C19: the scan of a root that does not exist never yields a report: Check
\* returns an error, or no error and zero reports.
C19_MissingRoot ==
    tree[1].err =>
        /\ N = 0 /\ tpc = <<>>
        /\ Returned => (ret.reports = <<>> /\ (ret.err # ErrNil \/ ~ret.isNil))

\* The scan of a missing root has returned no error and an empty collection.
C19_Witness ==
    /\ Returned /\ tree[1].err
    /\ ret.err = ErrNil /\ ~ret.isNil /\ ret.reports = <<>>

\* C20: a read error on an entry never aborts the walk or the scan: the entry
\* is skipped, the walk goes on to the last entry, every readable candidate
\* is collected, and only a cancellation makes Check return a walk error.
C20_ReadErrorSkipped ==
    /\ \A p \in 1..walkPos : tree[p].err => (p \notin examined /\ p \notin Candidates)
    /\ (Returned /\ ret.err = ErrWalk) => cancelled
    /\ (Returned /\ ~cancelled) => ret.err = ErrNil
    /\ (mainpc = "dispatch" \/ ReturnedReports)
          => /\ walkPos = Len(tree)
             /\ { binaryPaths[i] : i \in 1..N } = Candidates

\* A directory could not be read, a candidate that comes later in the walk
\* was collected, and its report was returned.
C20_Witness ==
    /\ ReturnedReports
    /\ \E k \in 1..Len(tree) :
          /\ tree[k].err
          /\ \E i \in 1..N : binaryPaths[i] > k /\ ret.reports[i].RelativePath > k

\* C21: the walk looks at the cancellation signal at each entry it visits,
\* directories and entries with a read error included: a callback made after
\* the signal fired ends the walk, and Check returns a cancellation error and
\* no reports.
C21_WalkChecksCancel ==
    [][(mainpc = "walk" /\ cancelled /\ walkPos' # walkPos)
          => (mainpc' = "returned" /\ ReturnedCancellation')]_vars

\* The walk positions whose path starts with /proc/, /sys/ or /dev/.
ExcludedEntries ==
    { p \in 1..Len(tree) :
         \/ HasPrefix(tree[p].path, <<"/proc/">>)
         \/ HasPrefix(tree[p].path, <<"/sys/">>)
         \/ HasPrefix(tree[p].path, <<"/dev/">>) }

\* The walk positions the callback has handed to isBinary.
Classified ==
    { p \in examined : ~tree[p].isDir /\ ~shouldExcludePath(tree[p].path) }

\* C22: an entry whose path starts with /proc/, /sys/ or /dev/ is never
\* classified, never collected as a candidate, and no goroutine ever holds or
\* writes a report for it, so it is never executed.
C22_ExcludedNeverTouched ==
    /\ Classified \cap ExcludedEntries = {}
    /\ \A i \in 1..N : binaryPaths[i] \notin ExcludedEntries
    /\ \A i \in Tasks : local[i].RelativePath \notin ExcludedEntries
    /\ \A i \in 1..Len(reports) : reports[i].RelativePath \notin ExcludedEntries
    /\ \A i \in 1..Len(ret.reports) : ret.reports[i].RelativePath \notin ExcludedEntries

\* The walk went past a Go binary under /proc/ and past another Go binary;
\* only the report of the other one was returned.
C22_Witness ==
    /\ ReturnedReports /\ N = 1
    /\ \E p \in examined \cap ExcludedEntries :
          /\ isBinary(tree[p]) /\ ~tree[p].isDir
          /\ p < binaryPaths[1]
    /\ probe[1] = "exited"

\* An entry has one of the three execute permission bits (owner, group,
\* other).
HasExecBit(e) ==
    \/ (e.mode \div 64) % 2 = 1
    \/ (e.mode \div 8) % 2 = 1
    \/ e.mode % 2 = 1

\* C23: an entry is collected as a candidate only if it is no directory, has
\* an execute permission bit, parses as ELF and has readable Go build
\* information; an entry that fails a stage is left out silently: no report
\* is made for it and the scan returns no error because of it.
C23_CandidateFilter ==
    /\ \A i \in 1..N :
          LET e == tree[binaryPaths[i]]
          IN ~e.err /\ ~e.isDir /\ e.statOk /\ HasExecBit(e) /\ e.elf /\ e.goinfo
    /\ \A i \in Tasks :
          local[i] # ZeroReport => local[i].RelativePath = binaryPaths[i]
    /\ \A i \in 1..Len(ret.reports) :
          LET e == tree[ret.reports[i].RelativePath]
          IN ~e.isDir /\ e.statOk /\ HasExecBit(e) /\ e.elf /\ e.goinfo
    /\ (Returned /\ ~cancelled) => (ret.err = ErrNil /\ Len(ret.reports) = N)

\* A file without an execute bit, an ELF file that is no Go binary and a Go
\* binary were walked; one report was returned, and no error.
C23_Witness ==
    /\ ReturnedReports /\ N = 1
    /\ \E p, q \in examined :
          /\ tree[p].elf /\ tree[p].goinfo /\ ~HasExecBit(tree[p])
          /\ tree[q].elf /\ ~tree[q].goinfo /\ HasExecBit(tree[q])
    /\ ret.reports[1].Error = ErrNil

StaticCalled == call.fn = "staticAnalysis"

\* positions of the settings with key k in a settings list
KeyPositions(settings, k) == { p \in 1..Len(settings) : settings[p].Key = k }

LastPosition(S) == CHOOSE p \in S : \A q \in S : q <= p

\* C24 as stated: cgoEnabled is true if and only if a CGO_ENABLED setting
\* has the literal value "1", and usesSystemCrypto is true if and only if a
\* GOEXPERIMENT setting's value contains "systemcrypto"; both are false when
\* the key is absent.
C24_AnyCgoSetting ==
    StaticCalled =>
        LET settings == call.info.Settings IN
        /\ call.details.CGOEnabled <=>
              \E p \in KeyPositions(settings, "CGO_ENABLED") : settings[p].Value = <<"1">>
        /\ call.details.UseSystemcrypto <=>
              \E p \in KeyPositions(settings, "GOEXPERIMENT") :
                  Contains(settings[p].Value, <<"systemcrypto">>)

\* C24 (amended): cgoEnabled is true if and only if the list has a
\* CGO_ENABLED setting and the last of them has the literal value "1";
\* usesSystemCrypto is true if and only if some GOEXPERIMENT setting's value
\* contains "systemcrypto"; both are false when the key is absent.
C24_LastCgoSetting ==
    StaticCalled =>
        LET settings == call.info.Settings
            cgo == KeyPositions(settings, "CGO_ENABLED")
        IN /\ call.details.CGOEnabled <=>
                 (cgo # {} /\ settings[LastPosition(cgo)].Value = <<"1">>)
           /\ call.details.UseSystemcrypto <=>
                 \E p \in KeyPositions(settings, "GOEXPERIMENT") :
                     Contains(settings[p].Value, <<"systemcrypto">>)
           /\ call.details.GoVersion = call.info.GoVersion
           /\ call.details.Module = call.info.MainPath

\* CGO_ENABLED=1 is followed by CGO_ENABLED=0, and GOEXPERIMENT names
\* systemcrypto among other experiments.
C24_Witness ==
    /\ StaticCalled
    /\ \E p, q \in KeyPositions(call.info.Settings, "CGO_ENABLED") :
          /\ p < q
          /\ call.info.Settings[p].Value = <<"1">>
          /\ call.info.Settings[q].Value = <<"0">>
    /\ ~call.details.CGOEnabled
    /\ call.details.UseSystemcrypto

\* The position of a goroutine in its code.
TaskRank(pc) ==
    CASE pc = "waiting" -> 0
      [] pc = "admitted" -> 1
      [] pc = "check" -> 2
      [] pc = "run" -> 3
      [] pc = "probing" -> 4
      [] pc = "lock" -> 5
      [] pc = "writing" -> 6
      [] pc = "exiting" -> 7
      [] pc = "done" -> 8

ProbeEnded == {"refused", "startfailed", "exited", "timeout", "killed"}

C26_OneTaskPerCandidate ==
    /\ Len(tpc) <= N
    /\ \A i, j \in 1..N : binaryPaths[i] = binaryPaths[j] => i = j

C26_OnlyForward ==
    \A i \in Tasks :
        /\ tpc'[i] # tpc[i] => TaskRank(tpc'[i]) > TaskRank(tpc[i])
        /\ (local'[i] # local[i] \/ probe'[i] # probe[i]) => tpc'[i] # tpc[i]
        /\ probe'[i] # probe[i] =>
              \/ probe[i] = "none" /\ tpc[i] = "run"
              \/ probe[i] = "running" /\ probe'[i] \in ProbeEnded

\* C26: nothing is retried: a candidate has one goroutine, a goroutine only
\* moves forward in its code, so it reads the build info at most once and
\* starts the subprocess at most once, and a probe that ended (exit, timeout,
\* kill, start failure) is never started again.
C26_NoRetry == []C26_OneTaskPerCandidate /\ [][C26_OnlyForward]_vars

\* A scan returned three reports: one probe timed out, one candidate's build
\* info could not be read, one probe exited with the FIPS panic.
C26_Witness ==
    /\ ReturnedReports /\ N = 3
    /\ \A i \in Tasks : tpc[i] = "done"
    /\ probe[1] = "timeout"
    /\ ret.reports[2].Error = ErrBuildInfo /\ probe[2] = "none"
    /\ probe[3] = "exited" /\ ret.reports[3].GoBinaryDetails.FailsOnFIPSCheck

C27_OneProviderCall ==
    /\ hostCalls <= 1
    /\ mainpc # "start" => (hostCalls = 1 /\ host.known)
    /\ \A k \in 1..Len(evals) : evals[k].hostFipsCapable = host.FIPSCapable

C27_HostReadOnly ==
    /\ mainpc # "start" => host' = host
    /\ host' # host => (mainpc = "start" /\ hostCalls' = hostCalls + 1)

\* C27: the host capability is obtained by one provider call per scan
\* invocation, before the scan; no step of the walk, of a task or of the
\* evaluation loop changes it, and every report of the invocation is
\* evaluated against that one fipsCapable value.
C27_HostOnce == []C27_OneProviderCall /\ [][C27_HostReadOnly]_vars

\* Two reports of one scan have been evaluated, with different verdicts.
C27_Witness ==
    /\ call # NoCall /\ call.fn = "analyze" /\ call.i >= 2
    /\ Len(evals) = 2
    /\ evals[1].compliant # evals[2].compliant
    /\ hostCalls = 1

\* The report of task i as far as it exists: the goroutine's local report
\* before the slot write, the slot afterwards.
ReportOf(i) == IF writes[i] # <<>> THEN reports[i] ELSE local[i]

Extracted(i) == ReportOf(i).GoBinaryDetails.GoVersion # ""

\* C28: in a task the build info is read before the probe: a probe was
\* started only for a task whose own build info was read, a task at or past
\* the start of the probe has its metadata filled in, and a candidate whose
\* build info could not be read was never executed and has a report with
\* the extraction error and empty metadata.
C28_ExtractThenProbe ==
    \A i \in Tasks :
        /\ probe[i] # "none" => Extracted(i)
        /\ tpc[i] \in {"run", "probing"} => (Extracted(i) /\ ReportOf(i).Error = ErrNil)
        /\ tpc[i] \in {"waiting", "admitted", "check"} => (probe[i] = "none" /\ ~Extracted(i))
        /\ ReportOf(i).Error = ErrBuildInfo =>
              /\ probe[i] = "none"
              /\ ReportOf(i).GoBinaryDetails = ZeroDetails
              /\ ReportOf(i).RelativePath = binaryPaths[i]

\* One candidate's build info could not be read and it was not run; another
\* candidate of the same scan was read and is being probed.
C28_Witness ==
    \E i, j \in Tasks :
        /\ writes[i] # <<>> /\ reports[i].Error = ErrBuildInfo /\ probe[i] = "none"
        /\ tpc[j] = "probing" /\ Extracted(j)

InCriticalSection == { i \in Tasks : tpc[i] = "writing" }

\* C29: the slot writes exclude each other: at most one task is between
\* mu.Lock() and mu.Unlock(), the holder of mu is exactly that task, and a
\* task that waits for the gate, reads the build info or probes does not
\* hold mu.
C29_MutualExclusion ==
    /\ Cardinality(InCriticalSection) <= 1
    /\ \A i \in Tasks : (mu = i) <=> (tpc[i] = "writing")
    /\ mu # 0 => mu \in Tasks
    /\ \A i \in Tasks : tpc[i] \in {"waiting", "admitted", "check", "run", "probing"} => mu # i

\* One task is writing its slot while another, its report complete, waits
\* for the lock.
C29_Witness ==
    \E i, j \in Tasks :
        /\ tpc[i] = "writing" /\ mu = i
        /\ tpc[j] = "lock"

SearchCalled == call.fn = "searchKnownLibrary"

LibraryName(k) == <<"libcrypto.so", ".", knownVersions[k]>>

\* positions, in the order 3, 1.1, 11, 111, of the libraries reported as
\* existing, and of those among them reported as FIPS enabled
Available(cv) == { k \in 1..4 : cv[LibraryName(k)].exists }
AvailableFips(cv) == { k \in Available(cv) : cv[LibraryName(k)].fips }

FirstPosition(S) == CHOOSE p \in S : \A q \in S : p <= q

\* C30: searchKnownLibrary returns the first library, in the order 3, 1.1,
\* 11, 111, that exists and is FIPS enabled, if there is one; otherwise the
\* first that exists; otherwise the empty string; what it returns is never
\* a library reported as not existing.
C30_SearchOrder ==
    SearchCalled =>
        LET cv == call.checkVersion IN
        /\ call.out =
              IF AvailableFips(cv) # {} THEN LibraryName(FirstPosition(AvailableFips(cv)))
              ELSE IF Available(cv) # {} THEN LibraryName(FirstPosition(Available(cv)))
              ELSE <<>>
        /\ call.out # <<>> => (call.out \in DOMAIN cv /\ cv[call.out].exists)

\* Two libraries exist without FIPS, one is FIPS enabled but missing, none
\* is both: the first existing one, libcrypto.so.3, is returned and not
\* the later libcrypto.so.11.
C30_Witness ==
    /\ SearchCalled
    /\ Available(call.checkVersion) = {1, 3}
    /\ AvailableFips(call.checkVersion) = {}
    /\ call.checkVersion[LibraryName(2)].fips
    /\ call.out = <<"libcrypto.so", ".", "3">>

AllTasksDone == \A i \in Tasks : tpc[i] = "done"

\* C25: every probe ends at its deadline at the latest, so in every fair
\* run, whatever the number of candidates and even if no subprocess ever
\* exits by itself, Check returns and every dispatched task completes: from
\* some point on Check has returned and no task is left waiting for the
\* gate, probing or waiting for the lock.
C25_Terminates == <>[](Returned /\ AllTasksDone)

\* Three candidates, more than the gate admits, were each stopped by the
\* deadline; Check returned their reports.
C25_Witness ==
    /\ ReturnedReports /\ N = 3 /\ N > MaxParallel
    /\ Len(tpc) = 3 /\ AllTasksDone
    /\ \A i \in Tasks : probe[i] = "timeout"
    /\ ~cancelled

LibraryCalled == call.fn = "library"

\* what the search of the known versions yields for cv: the first library
\* that exists and is FIPS enabled, else the first that exists, else ""
SearchResult(cv) ==
    IF AvailableFips(cv) # {} THEN LibraryName(FirstPosition(AvailableFips(cv)))
    ELSE IF Available(cv) # {} THEN LibraryName(FirstPosition(Available(cv)))
    ELSE <<>>

\* C31: library() chooses by strict precedence: a non-empty
\* GO_OPENSSL_VERSION_OVERRIDE gives "libcrypto.so." followed by the
\* override, and the known versions are not searched; otherwise the result
\* of searchKnownLibrary if it is not empty; otherwise "libcrypto.so"
\* without a version.  The result is never empty.
C31_Precedence ==
    LibraryCalled =>
        /\ call.env.value # <<>> =>
              /\ call.out = <<"libcrypto.so", ".">> \o call.env.value
              /\ ~call.searched
        /\ call.env.value = <<>> =>
              /\ call.searched
              /\ call.out = IF SearchResult(call.checkVersion) # <<>>
                            THEN SearchResult(call.checkVersion)
                            ELSE <<"libcrypto.so">>
        /\ call.out # <<>>

\* The override names a version that is not among the known ones while a
\* FIPS enabled libcrypto.so.3 exists: the override is taken.
C31_Witness ==
    /\ LibraryCalled
    /\ call.env.value = <<"1.0.2">>
    /\ 1 \in AvailableFips(call.checkVersion)
    /\ call.out = <<"libcrypto.so", ".", "1.0.2">>


\* C32: the permits of the gate are conserved: the permits taken are
\* exactly those of the tasks that were admitted and have not yet run their
\* deferred release, so a task that is done, by whatever path, has given its
\* permit back, a task holds at most one, and once all dispatched tasks are
\* done the gate holds no permit.
C32_PermitsConserved ==
    /\ semaphore = InGate
    /\ Cardinality(semaphore) <= MaxParallel
    /\ \A i \in Tasks : tpc[i] \in {"waiting", "done"} => i \notin semaphore
    /\ AllTasksDone => semaphore = {}
    /\ wg = Cardinality({ i \in Tasks : tpc[i] # "done" })

\* All tasks are done and the gate is empty; one task recorded the error of
\* its check, another saw the cancellation right after admission and wrote
\* nothing.
C32_Witness ==
    /\ Len(tpc) >= 2 /\ AllTasksDone /\ semaphore = {}
    /\ \E i, j \in Tasks :
          /\ writes[i] = <<>>
          /\ writes[j] # <<>> /\ reports[j].Error = ErrBuildInfo

\* slots into which a task wrote the cancellation error
CancelledSlots ==
    { i \in 1..Len(reports) : writes[i] # <<>> /\ IsCancellation(reports[i].Error) }

\* C33: a cancellation error never shows in a returned report: when Check
\* has returned a collection and no error, no report in it, and no slot of
\* the shared collection, has a cancellation error; a slot gets such an
\* error only after the cancellation, and then Check returns the
\* cancellation error and no collection.
C33_NoCancelInReports ==
    /\ ReturnedReports =>
          /\ \A i \in 1..Len(ret.reports) : ~IsCancellation(ret.reports[i].Error)
          /\ CancelledSlots = {}
    /\ CancelledSlots # {} => cancelled
    /\ (Returned /\ CancelledSlots # {}) => ReturnedCancellation

\* A task saw the cancellation inside checkGoBinaryFIPS and wrote the error
\* to its slot, all tasks finished, and Check returned the cancellation
\* error without reports.
C33_Witness ==
    /\ ReturnedCancellation
    /\ AllTasksDone /\ Len(tpc) = N
    /\ \E i \in CancelledSlots : reports[i].Error = ErrCanceled
    /\ \E j \in 1..N : writes[j] # <<>> /\ reports[j].Error = ErrNil

C34_WalkFirst ==
    /\ mainpc \in {"start", "walk"} => (Len(tpc) = 0 /\ wg = 0 /\ semaphore = {})
    /\ Len(tpc) > 0 =>
          /\ walkPos = Len(tree)
          /\ { binaryPaths[i] : i \in 1..N } = Candidates
          /\ \A i, j \in 1..N : i < j => binaryPaths[i] < binaryPaths[j]
    /\ \A i \in Tasks : probe[i] # "none" => walkPos = Len(tree)
    /\ (Returned /\ ret.err = ErrWalk) => Len(tpc) = 0

C34_CandidatesFixed ==
    Len(tpc') > 0 =>
        /\ binaryPaths' = binaryPaths
        /\ walkPos' = walkPos
        /\ examined' = examined

\* C34: discovery and dispatch are two phases in this order: while the walk
\* runs no task exists and no candidate is executed; from the dispatch of
\* the first task on the walk is over and the list of candidates, complete
\* and in walk order, does not change any more; a walk that ends with an
\* error dispatches no task.
C34_TwoPhases == []C34_WalkFirst /\ [][C34_CandidatesFixed]_vars

\* The first candidate is being executed while the dispatch loop still has
\* a candidate to dispatch.
C34_Witness ==
    /\ mainpc = "dispatch"
    /\ N >= 2 /\ Len(tpc) >= 1 /\ Len(tpc) < N
    /\ probe[1] = "running"
    /\ walkPos = Len(tree)

====
